---- MODULE Spec2Model ----
(***************************************************************************)
(* Model of the Chef Gemini RAG API (src/main.py): module start-up, the    *)
(* two HTTP handlers health_check and recommend_recipes, and the prompt    *)
(* builder / generation client format_with_gemini.                         *)
(*                                                                         *)
(* Text is modelled by real strings where the code only concatenates, and  *)
(* the prompt by the sequence of the pieces its f-strings are made of, so  *)
(* that "contains verbatim" is a statement about a piece of the sequence.  *)
(***************************************************************************)
EXTENDS Integers, Sequences, FiniteSets, TLC

(***************************************************************************)
(* Bounds of the model.                                                    *)
(***************************************************************************)
\* largest number of records the persisted store holds in a behaviour
MaxStore == 3

(***************************************************************************)
(* State.                                                                  *)
(***************************************************************************)
VARIABLES
  boot,               \* position of the module's start-up code
  API_KEY,            \* os.getenv("GEMINI_API_KEY")
  model,              \* the shared model handle, "none" before it exists
  collection,         \* the shared store handle, "none" before it exists
  app,                \* the FastAPI application, "none" before it exists
  startupError,       \* message of the exception that ended start-up
  storeCount,         \* number of records in the persisted store
  storeContacted,     \* the process has called the store
  modelContacted,     \* the process has called the generation model
  pc,                 \* position of the recommend_recipes request in flight
  payload,            \* the JSON body it came with
  request,            \* its RecipeRequest
  storeCall,          \* the arguments of its collection.query call
  results,            \* what collection.query gave back
  exception,          \* message of the exception that reached its except clause
  generation,         \* what the generation model did with its prompt
  recipes_for_gemini, \* the records it hands to format_with_gemini
  prompt,             \* the prompt it hands to model.generate_content
  response,           \* its HTTP response
  nQuery,             \* store queries it has issued
  nGen,               \* generation calls it has issued
  nResp,              \* responses it has produced
  sent,               \* the previous generation call: its inputs and prompt
  health              \* the response of the last GET /

vars == << boot, API_KEY, model, collection, app, startupError,
           storeCount, storeContacted, modelContacted,
           pc, payload, request, storeCall, results, exception, generation,
           recipes_for_gemini, prompt, response,
           nQuery, nGen, nResp, sent, health >>

bootVars == << boot, API_KEY, model, collection, app, startupError >>

requestVars == << pc, payload, request, storeCall, results, exception, generation,
                  recipes_for_gemini, prompt, response,
                  nQuery, nGen, nResp, sent >>

(***************************************************************************)
(* Python values: None, str and int, with truthiness and str().            *)
(***************************************************************************)
PyNone == [t |-> "none", i |-> 0, s |-> ""]

PyS(str) == [t |-> "str", i |-> 0, s |-> str]

PyI(n) == [t |-> "int", i |-> n, s |-> ""]

\* a JSON body that does not carry the key at all
Omitted == [t |-> "omitted", i |-> 0, s |-> ""]

Truthy(v) ==
  CASE v.t = "none" -> FALSE
    [] v.t = "str"  -> v.s # ""
    [] v.t = "int"  -> v.i # 0
    [] OTHER        -> FALSE

\* what an f-string or str() renders for a value
PyStr(v) ==
  CASE v.t = "none" -> "None"
    [] v.t = "str"  -> v.s
    [] v.t = "int"  -> ToString(v.i)
    [] OTHER        -> ""

\* ", ".join(list)
RECURSIVE JoinComma(_)
JoinComma(list) ==
  IF list = <<>> THEN ""
  ELSE IF Len(list) = 1 THEN list[1]
  ELSE list[1] \o ", " \o JoinComma(Tail(list))

(***************************************************************************)
(* Metadata of a record: a mapping, or None for a record stored without    *)
(* metadata.                                                               *)
(***************************************************************************)
NoMeta == [kind |-> "none", d |-> <<>>]

Dict(f) == [kind |-> "dict", d |-> f]

\* variant: meta.get(key) or default
MetaGetOr(meta, key, default) ==
  IF key \in DOMAIN meta.d /\ Truthy(meta.d[key]) THEN meta.d[key] ELSE default

\* meta.get(key, default) on a mapping
MetaGet(meta, key, default) ==
  IF key \in DOMAIN meta.d THEN meta.d[key] ELSE default

(***************************************************************************)
(* Start-up constants of the module.                                       *)
(***************************************************************************)
MODEL_NAME == "gemini-1.5-flash"

COLLECTION_NAME == "recipes"

N_RESULTS == 3

APOLOGY == "I'm sorry, I couldn't find any recipes that match those ingredients in my current database."

KEY_ERROR == "GEMINI_API_KEY not found. Please set it in your environment or .env file."

\* str(e) of the AttributeError raised by None.get
NONE_GET_ERROR == "'NoneType' object has no attribute 'get'"

(***************************************************************************)
(* The persisted store.  Its records belong to the external ingestion      *)
(* process; the service sees the first storeCount of them.                 *)
(***************************************************************************)
\* the kinds of metadata the ingestion writes: every field present (with a
\* zero cooking time), only a cooking time whose stored text is "N/A", and
\* no metadata at all
MetaKinds ==
  << Dict([RecipeName |-> PyS("Pasta"), TotalTimeInMins |-> PyI(0), Servings |-> PyI(4)]),
     Dict([TotalTimeInMins |-> PyS("N/A")]),
     NoMeta >>

RecordAt(n) ==
  [document |-> "Instructions of recipe " \o ToString(n) \o ".",
   metadata |-> MetaKinds[((n - 1) % Len(MetaKinds)) + 1]]

Min(a, b) == IF a < b THEN a ELSE b

\* the ordered choices of at most k distinct records among the first n
Selections(n, k) ==
  UNION { { sel \in [1..m -> 1..n] : \A a, b \in 1..m : a # b => sel[a] # sel[b] }
          : m \in 0..Min(k, n) }

STORE_ERROR == "Collection recipes does not exist."

\* what collection.query(query_texts=[q], n_results=k, include=[...]) can
\* give back: an exception, a result without any inner list, or one inner
\* list of at most k records in the store's similarity order
QueryOutcomes(n, k) ==
  { [exc |-> STORE_ERROR, documents |-> <<>>, metadatas |-> <<>>] }
  \cup { [exc |-> "", documents |-> <<>>, metadatas |-> <<>>] }
  \cup { [exc |-> "",
          documents |-> << [a \in DOMAIN sel |-> RecordAt(sel[a]).document] >>,
          metadatas |-> << [a \in DOMAIN sel |-> RecordAt(sel[a]).metadata] >>]
         : sel \in Selections(n, k) }

(***************************************************************************)
(* The generation model: model.generate_content(prompt) and response.text. *)
(***************************************************************************)
GenerationOutcomes ==
  { [kind |-> "text",    v |-> "Here are three ideas for tonight."],
    [kind |-> "raise",   v |-> "429 Resource has been exhausted"],
    [kind |-> "notext",  v |-> "response.text requires a valid Part"] }

(***************************************************************************)
(* RecipeRequest and the inputs of the requests.                           *)
(***************************************************************************)
\* List[str]: the framework also accepts the empty list
IngredientLists == { <<>>, <<"chicken">>, <<"eggs", "flour", "milk">> }

ConstraintInputs == { Omitted, PyS("no dairy, no oven"), PyNone }

\* variant: the field's default is None instead of the text "None"
RecipeRequestNullDefault(ingredients, constraints) ==
  [ingredients |-> ingredients,
   constraints |-> IF constraints = Omitted THEN PyNone ELSE constraints]

RecipeRequest(ingredients, constraints) ==
  [ingredients |-> ingredients,
   constraints |-> IF constraints = Omitted THEN PyS("None") ELSE constraints]

(***************************************************************************)
(* format_with_gemini: the prompt.                                         *)
(***************************************************************************)
Section(n, doc, meta) ==
  << "\n--- OPTION ", ToString(n), ": ",
     PyStr(MetaGet(meta, "RecipeName", PyS("Unknown Recipe"))), " ---\n",
     "Cooking Time: ", PyStr(MetaGet(meta, "TotalTimeInMins", PyS("N/A"))),
     " mins | Servings: ", PyStr(MetaGet(meta, "Servings", PyS("N/A"))), "\n",
     "Instructions: ", doc, "\n" >>

\* the loop over recipes_data['documents'], from record n on, context_text
\* holding acc so far; exc is the message of the exception that ends it
RECURSIVE ContextText(_, _, _)
ContextText(recipes_data, n, acc) ==
  IF n > Len(recipes_data.documents) THEN [exc |-> "", text |-> acc]
  ELSE IF n > Len(recipes_data.metadatas)
       THEN [exc |-> "list index out of range", text |-> <<>>]
  ELSE IF recipes_data.metadatas[n].kind = "none"
       THEN [exc |-> NONE_GET_ERROR, text |-> <<>>]
  ELSE ContextText(recipes_data, n + 1,
                   acc \o Section(n, recipes_data.documents[n], recipes_data.metadatas[n]))

\* (the dash of the last line is written in ASCII)
Header(available_ingredients, constraints) ==
  << "You are a friendly, expert kitchen assistant. A home cook has: ",
     JoinComma(available_ingredients), ".\n",
     "IMPORTANT DIETARY/EQUIPMENT CONSTRAINTS: ", PyStr(constraints), "\n\n",
     "Based on their ingredients AND the constraints above, suggest the 3 best matches from the provided database. "
       \o "If a recipe uses an ingredient they are allergic to or requires equipment they don't have, "
       \o "you MUST modify the steps to accommodate them or explain why a certain substitution was made.\n\n"
       \o "Don't mention 'searching a database' -- just offer your best culinary advice based on these recipes:\n" >>

\* variant: the ingredients line is kept in a module-level variable that the
\* first generation call sets
BuildPromptStale(available_ingredients, recipes_data, constraints) ==
  LET ctx == ContextText(recipes_data, 1, <<>>)
      ingredients == IF sent.prompt = <<>> THEN available_ingredients ELSE sent.ingredients
  IN  IF ctx.exc # "" THEN [exc |-> ctx.exc, prompt |-> <<>>]
      ELSE [exc |-> "", prompt |-> Header(ingredients, constraints) \o ctx.text]

BuildPrompt(available_ingredients, recipes_data, constraints) ==
  LET ctx == ContextText(recipes_data, 1, <<>>)
  IN  IF ctx.exc # "" THEN [exc |-> ctx.exc, prompt |-> <<>>]
      ELSE [exc |-> "", prompt |-> Header(available_ingredients, constraints) \o ctx.text]

\* variant: response.text is read after the try block
GenerateTextReadOutside(outcome) ==
  IF outcome.kind = "text" THEN [exc |-> "", text |-> outcome.v]
  ELSE IF outcome.kind = "notext" THEN [exc |-> outcome.v, text |-> ""]
  ELSE [exc |-> "", text |-> "Error generating content: " \o outcome.v]

\* the try/except around model.generate_content(prompt) and response.text
GenerateText(outcome) ==
  IF outcome.kind = "text" THEN [exc |-> "", text |-> outcome.v]
  ELSE [exc |-> "", text |-> "Error generating content: " \o outcome.v]

(***************************************************************************)
(* recommend_recipes: the test on the store's result and the responses.    *)
(***************************************************************************)
\* variant: only the outer list is tested
NoDocumentsOuterOnly(res) == res.documents = <<>>

\* not results["documents"] or not results["documents"][0]
NoDocuments(res) ==
  \/ res.documents = <<>>
  \/ res.documents[1] = <<>>

NoResponse == [code |-> 0, body |-> <<>>]

ApologyResponse == [code |-> 200, body |-> [recommendation |-> APOLOGY]]

SuccessResponse(req, final_answer) ==
  [code |-> 200,
   body |-> [status |-> "success",
             ingredients_received |-> req.ingredients,
             constraints_applied |-> req.constraints,
             recommendation |-> final_answer]]

\* variant: the detail does not carry the exception's message
ErrorResponseNoMessage(message) ==
  [code |-> 500, body |-> [detail |-> "Internal Server Error"]]

\* raise HTTPException(status_code=500, detail=...)
ErrorResponse(message) ==
  [code |-> 500, body |-> [detail |-> "Internal Server Error: " \o message]]

(***************************************************************************)
(* Initial state: the process has not run a line yet; the store holds      *)
(* whatever the ingestion has written so far.                              *)
(***************************************************************************)
KeyInputs == { PyNone, PyS(""), PyS("AIza-test-key") }

NoRequest == [ingredients |-> <<>>, constraints |-> PyNone]

NoCall == [query_texts |-> <<>>, n_results |-> 0]

NoResults == [exc |-> "", documents |-> <<>>, metadatas |-> <<>>]

NoGeneration == [kind |-> "none", v |-> ""]

NoRecipes == [documents |-> <<>>, metadatas |-> <<>>]

NoSent == [ingredients |-> <<>>, recipes |-> NoRecipes, constraints |-> PyNone, prompt |-> <<>>]

Init ==
  /\ boot = "load"
  /\ API_KEY = PyNone
  /\ model = "none"
  /\ collection = "none"
  /\ app = "none"
  /\ startupError = ""
  /\ storeCount \in 0..MaxStore
  /\ storeContacted = FALSE
  /\ modelContacted = FALSE
  /\ pc = "idle"
  /\ payload = NoRequest
  /\ request = NoRequest
  /\ storeCall = NoCall
  /\ results = NoResults
  /\ exception = ""
  /\ generation = NoGeneration
  /\ recipes_for_gemini = NoRecipes
  /\ prompt = <<>>
  /\ response = NoResponse
  /\ nQuery = 0
  /\ nGen = 0
  /\ nResp = 0
  /\ sent = NoSent
  /\ health = NoResponse

(***************************************************************************)
(* Module start-up, one action per statement group.                        *)
(***************************************************************************)
\* load_dotenv(); API_KEY = os.getenv("GEMINI_API_KEY")
LoadEnv ==
  /\ boot = "load"
  /\ \E key \in KeyInputs : API_KEY' = key
  /\ boot' = "check"
  /\ UNCHANGED << model, collection, app, startupError, storeCount,
                  storeContacted, modelContacted, requestVars, health >>

\* variant: API_KEY is None
KeyMissingNoneOnly(key) == key = PyNone

\* not API_KEY
KeyMissing(key) == ~Truthy(key)

\* if not API_KEY: raise ValueError(...)
CheckKey ==
  /\ boot = "check"
  /\ IF KeyMissing(API_KEY)
     THEN boot' = "failed" /\ startupError' = KEY_ERROR
     ELSE boot' = "model" /\ UNCHANGED startupError
  /\ UNCHANGED << API_KEY, model, collection, app, storeCount,
                  storeContacted, modelContacted, requestVars, health >>

\* genai.configure(api_key=API_KEY); model = genai.GenerativeModel(...)
CreateModel ==
  /\ boot = "model"
  /\ model' = MODEL_NAME
  /\ boot' = "store"
  /\ UNCHANGED << API_KEY, collection, app, startupError, storeCount,
                  storeContacted, modelContacted, requestVars, health >>

\* client = chromadb.PersistentClient(...); collection = client.get_or_create_collection(...)
OpenStore ==
  /\ boot = "store"
  /\ collection' = COLLECTION_NAME
  /\ storeContacted' = TRUE
  /\ boot' = "app"
  /\ UNCHANGED << API_KEY, model, app, startupError, storeCount,
                  modelContacted, requestVars, health >>

\* app = FastAPI(...); from here on the framework dispatches requests
CreateApp ==
  /\ boot = "app"
  /\ app' = "Chef Gemini RAG API"
  /\ boot' = "serving"
  /\ UNCHANGED << API_KEY, model, collection, startupError, storeCount,
                  storeContacted, modelContacted, requestVars, health >>

(***************************************************************************)
(* The external ingestion process adds a record to the persisted store.    *)
(***************************************************************************)
ExternalIngest ==
  /\ storeCount < MaxStore
  /\ storeCount' = storeCount + 1
  /\ UNCHANGED << bootVars, storeContacted, modelContacted, requestVars, health >>

(***************************************************************************)
(* GET /                                                                   *)
(***************************************************************************)
\* collection.count()
CollectionCount == storeCount

HealthResponse(count) ==
  [code |-> 200,
   body |-> [status |-> "online", database_count |-> count, model |-> "gemini-1.5-flash"]]

\* the framework's answer to an exception no handler caught
UnhandledResponse == [code |-> 500, body |-> [detail |-> "Internal Server Error"]]

\* variant: the handler writes a probe record to see that the store is online
health_checkProbe ==
  /\ boot = "serving"
  /\ app # "none"
  /\ storeContacted' = TRUE
  /\ storeCount' = IF storeCount < MaxStore THEN storeCount + 1 ELSE storeCount
  /\ \/ health' = HealthResponse(CollectionCount)
     \/ health' = UnhandledResponse
  /\ UNCHANGED << bootVars, modelContacted, requestVars >>

health_check ==
  /\ boot = "serving"
  /\ app # "none"
  /\ storeContacted' = TRUE
  /\ \/ health' = HealthResponse(CollectionCount)
     \/ health' = UnhandledResponse
  /\ UNCHANGED << bootVars, storeCount, modelContacted, requestVars >>

(***************************************************************************)
(* POST /recommend                                                         *)
(***************************************************************************)
\* the framework validates the body into a RecipeRequest and calls the handler
Receive ==
  /\ boot = "serving"
  /\ app # "none"
  /\ pc \in {"idle", "done"}
  /\ \E ingredients \in IngredientLists, constraints \in ConstraintInputs :
       /\ payload' = [ingredients |-> ingredients, constraints |-> constraints]
       /\ request' = RecipeRequest(ingredients, constraints)
  /\ pc' = "query"
  /\ storeCall' = NoCall
  /\ results' = NoResults
  /\ exception' = ""
  /\ generation' = NoGeneration
  /\ recipes_for_gemini' = NoRecipes
  /\ prompt' = <<>>
  /\ response' = NoResponse
  /\ nQuery' = 0
  /\ nGen' = 0
  /\ nResp' = 0
  /\ UNCHANGED << bootVars, storeCount, storeContacted, modelContacted,
                  sent, health >>

\* variant: a request that failed goes back to the store query
RespondRetry(resp) ==
  /\ response' = resp
  /\ nResp' = nResp + 1
  /\ pc' = IF resp.code = 500 THEN "query" ELSE "done"

\* ends the request with the response resp
Respond(resp) ==
  /\ response' = resp
  /\ nResp' = nResp + 1
  /\ pc' = "done"

\* from the top of the try block to the call of model.generate_content:
\* the query string, the store query, the test for no documents, and the
\* prompt built by format_with_gemini
RecommendQuery ==
  /\ pc = "query"
  /\ storeCall' = [query_texts |-> << JoinComma(request.ingredients) >>,
                   n_results |-> N_RESULTS]
  /\ nQuery' = nQuery + 1
  /\ storeContacted' = TRUE
  /\ \E res \in QueryOutcomes(storeCount, N_RESULTS) :
       /\ results' = res
       /\ IF res.exc # ""
          THEN /\ exception' = res.exc
               /\ Respond(ErrorResponse(res.exc))
               /\ UNCHANGED << recipes_for_gemini, prompt >>
          ELSE IF NoDocuments(res)
          THEN /\ Respond(ApologyResponse)
               /\ UNCHANGED << exception, recipes_for_gemini, prompt >>
          ELSE LET data  == [documents |-> res.documents[1],
                             metadatas |-> res.metadatas[1]]
                   built == BuildPrompt(request.ingredients, data, request.constraints)
               IN  /\ recipes_for_gemini' = data
                   /\ exception' = built.exc
                   /\ IF built.exc # ""
                      THEN Respond(ErrorResponse(built.exc)) /\ UNCHANGED prompt
                      ELSE /\ prompt' = built.prompt
                           /\ pc' = "generate"
                           /\ UNCHANGED << response, nResp >>
  /\ UNCHANGED << bootVars, storeCount, modelContacted, payload, request,
                  generation, nGen, sent, health >>

\* model.generate_content(prompt), response.text, and the return of the handler
RecommendGenerate ==
  /\ pc = "generate"
  /\ nGen' = nGen + 1
  /\ modelContacted' = TRUE
  /\ sent' = [ingredients |-> request.ingredients, recipes |-> recipes_for_gemini,
              constraints |-> request.constraints, prompt |-> prompt]
  /\ \E outcome \in GenerationOutcomes :
       LET final_answer == GenerateText(outcome)
       IN  /\ generation' = outcome
           /\ exception' = final_answer.exc
           /\ IF final_answer.exc # ""
              THEN Respond(ErrorResponse(final_answer.exc))
              ELSE Respond(SuccessResponse(request, final_answer.text))
  /\ UNCHANGED << bootVars, storeCount, storeContacted, payload, request, storeCall,
                  results, recipes_for_gemini, prompt, nQuery, health >>

Next ==
  \/ LoadEnv
  \/ CheckKey
  \/ CreateModel
  \/ OpenStore
  \/ CreateApp
  \/ ExternalIngest
  \/ health_check
  \/ Receive
  \/ RecommendQuery
  \/ RecommendGenerate

Spec == Init /\ [][Next]_vars

(***************************************************************************)
(* Properties of POST /recommend.                                          *)
(***************************************************************************)
\* what constraints_applied has to be for the body the request came with
ExpectedConstraints ==
  IF payload.constraints = Omitted THEN PyS("None") ELSE payload.constraints

EchoesRequest ==
  /\ response.code = 200
  /\ "ingredients_received" \in DOMAIN response.body
  /\ response.body.ingredients_received = payload.ingredients
  /\ "constraints_applied" \in DOMAIN response.body
  /\ response.body.constraints_applied = ExpectedConstraints

\* C1 as stated: every finished request with a non-empty ingredients list has
\* HTTP 200 and echoes the ingredients and the constraints ("None" when
\* omitted), whatever the store and the model did.
C1_EveryRequestEchoes ==
  (pc = "done" /\ payload.ingredients # <<>>) => EchoesRequest

\* C1 amended: a finished request that reached the generation call has HTTP
\* 200 and echoes the ingredients and the constraints ("None" when omitted),
\* whatever the model returned or raised; a finished request that did not
\* reach it has the apology object or HTTP 500, neither with the echo fields.
C1_GeneratedRequestEchoes ==
  pc = "done" =>
    IF nGen = 1
    THEN EchoesRequest
    ELSE /\ response = ApologyResponse \/ response.code = 500
         /\ "ingredients_received" \notin DOMAIN response.body
         /\ "constraints_applied" \notin DOMAIN response.body

C1_Witness ==
  /\ pc = "done"
  /\ nGen = 1
  /\ generation.kind = "raise"
  /\ payload.ingredients = <<"eggs", "flour", "milk">>
  /\ payload.constraints = Omitted
  /\ response.code = 200
  /\ response.body.constraints_applied = PyS("None")

\* C2: when the store query returned no documents (no inner list, or an
\* empty first inner list) the response is exactly the apology object and
\* the generation model was not invoked for the request.
C2_NoDocumentsApology ==
  ( /\ nQuery = 1
    /\ results.exc = ""
    /\ (results.documents = <<>> \/ results.documents[1] = <<>>) )
  => /\ pc = "done"
     /\ response.code = 200
     /\ DOMAIN response.body = {"recommendation"}
     /\ response.body.recommendation = APOLOGY
     /\ nGen = 0
     /\ generation = NoGeneration
     /\ prompt = <<>>

C2_Witness ==
  /\ pc = "done"
  /\ results.exc = ""
  /\ results.documents = << <<>> >>
  /\ response = ApologyResponse
  /\ storeCount > 0

\* C3: a failed generation call (the model call raises, or reading the text
\* raises) does not reach the handler's except clause: the request ends with
\* HTTP 200, status "success" and the recommendation "Error generating
\* content: " followed by the failure's message.
C3_GenerationFailureSwallowed ==
  (pc = "done" /\ generation.kind \in {"raise", "notext"})
  => /\ exception = ""
     /\ response.code = 200
     /\ DOMAIN response.body =
          {"status", "ingredients_received", "constraints_applied", "recommendation"}
     /\ response.body.status = "success"
     /\ response.body.recommendation = "Error generating content: " \o generation.v

C3_Witness ==
  /\ pc = "done"
  /\ generation.kind = "notext"
  /\ response.code = 200
  /\ response.body.recommendation
       = "Error generating content: response.text requires a valid Part"

\* C4: an exception raised outside the generation call (by the store query
\* or while the prompt is built) ends the request with HTTP 500 and the
\* detail "Internal Server Error: " followed by its message, after one store
\* query and no generation call, and the service can take the next request.
C4_HandlerBoundary ==
  exception # ""
  => /\ pc = "done"
     /\ response.code = 500
     /\ DOMAIN response.body = {"detail"}
     /\ response.body.detail = "Internal Server Error: " \o exception
     /\ nQuery = 1
     /\ nGen = 0
     /\ nResp = 1
     /\ boot = "serving"
     /\ model = MODEL_NAME
     /\ collection = COLLECTION_NAME
     /\ ENABLED Receive

\* the prompt could not be built, after an earlier request was served
C4_Witness ==
  /\ pc = "done"
  /\ exception = NONE_GET_ERROR
  /\ response.code = 500
  /\ sent # NoSent

(***************************************************************************)
(* Properties of start-up.                                                 *)
(***************************************************************************)
\* C5: when GEMINI_API_KEY is unset or empty, start-up stops before the
\* model handle, the store handle and the application exist: no request is
\* served and neither the store nor the model is contacted.
C5_MissingKeyStopsStartup ==
  (boot # "load" /\ API_KEY \in {PyNone, PyS("")})
  => /\ boot \in {"check", "failed"}
     /\ model = "none"
     /\ collection = "none"
     /\ app = "none"
     /\ pc = "idle"
     /\ response = NoResponse
     /\ health = NoResponse
     /\ ~storeContacted
     /\ ~modelContacted

C5_Witness ==
  /\ boot = "failed"
  /\ API_KEY = PyS("")
  /\ startupError = KEY_ERROR

(***************************************************************************)
(* Properties of the prompt.                                               *)
(***************************************************************************)
HeaderLen == Len(Header(<<>>, PyNone))

SectionLen == Len(Section(1, "", Dict(<<>>)))

\* piece k of the section of record j in the prompt of the request in flight
Piece(j, k) == prompt[HeaderLen + (j - 1) * SectionLen + k]

NamePiece(j) == Piece(j, 4)

TimePiece(j) == Piece(j, 7)

ServingsPiece(j) == Piece(j, 9)

DocumentPiece(j) == Piece(j, 12)

HasKey(j, key) == key \in DOMAIN recipes_for_gemini.metadatas[j].d

Stored(j, key) == PyStr(recipes_for_gemini.metadatas[j].d[key])

\* one section per record, in the store's order, with the record's text
SectionsInOrder ==
  /\ Len(prompt) = HeaderLen + Len(recipes_for_gemini.documents) * SectionLen
  /\ \A j \in 1..Len(recipes_for_gemini.documents) :
       /\ Piece(j, 2) = ToString(j)
       /\ DocumentPiece(j) = recipes_for_gemini.documents[j]
       /\ HasKey(j, "RecipeName") => NamePiece(j) = Stored(j, "RecipeName")
       /\ HasKey(j, "TotalTimeInMins") => TimePiece(j) = Stored(j, "TotalTimeInMins")
       /\ HasKey(j, "Servings") => ServingsPiece(j) = Stored(j, "Servings")

C7_GracefulForEveryResult ==
  /\ nQuery = 1 => (storeCall.n_results = 3 /\ Len(storeCall.query_texts) = 1)
  /\ (pc = "done" /\ results.exc = "")
     => /\ response.code = 200
        /\ IF results.documents = <<>> \/ results.documents[1] = <<>>
           THEN response = ApologyResponse
           ELSE /\ nGen = 1
                /\ "status" \in DOMAIN response.body
                /\ response.body.status = "success"

\* C8: the prompt of the request in flight contains the ingredients joined
\* by ", " and the constraints string, and equals the prompt of the previous
\* generation call whenever that call had the same ingredients, records and
\* constraints.
C8_PromptFunctionOfInputs ==
  prompt # <<>> =>
    /\ \E k \in DOMAIN prompt : prompt[k] = JoinComma(payload.ingredients)
    /\ payload.constraints.t = "str"
         => \E k \in DOMAIN prompt : prompt[k] = payload.constraints.s
    /\ ( /\ sent # NoSent
         /\ sent.ingredients = request.ingredients
         /\ sent.recipes = recipes_for_gemini
         /\ sent.constraints = request.constraints )
       => sent.prompt = prompt

\* a second request with the inputs of the one before it
C8_Witness ==
  /\ pc = "generate"
  /\ nGen = 0
  /\ sent # NoSent
  /\ sent.ingredients = <<"chicken">>
  /\ request.ingredients = <<"chicken">>
  /\ sent.constraints = PyS("no dairy, no oven")
  /\ request.constraints = PyS("no dairy, no oven")
  /\ sent.recipes = recipes_for_gemini
  /\ sent.prompt = prompt

(***************************************************************************)
(* Properties of the pipeline and of the shared handles.                   *)
(***************************************************************************)
PipelineCounts ==
  /\ nQuery \in {0, 1}
  /\ nGen \in {0, 1}
  /\ nResp \in {0, 1}
  /\ pc = "query" => (nQuery = 0 /\ nGen = 0 /\ nResp = 0)
  /\ pc = "generate" => (nQuery = 1 /\ nGen = 0 /\ nResp = 0)
  /\ pc = "done" => (nQuery = 1 /\ nResp = 1)
  /\ nGen = 1 => /\ results.exc = ""
                 /\ results.documents # <<>>
                 /\ Len(results.documents[1]) >= 1

PipelineOrder ==
  /\ nQuery' = nQuery + 1 => (nGen = 0 /\ nResp = 0)
  /\ nGen' = nGen + 1 => (nQuery = 1 /\ nResp = 0 /\ nQuery' = 1)
  /\ nResp' = nResp + 1 => (nQuery' = 1 /\ nGen' \in {0, 1} /\ pc' = "done")

\* C9: a request issues one store query, then at most one generation call,
\* then one response; the generation call comes only after a store result
\* with at least one document, and no call is repeated.
C9_LinearPipeline == [](PipelineCounts) /\ [][PipelineOrder]_vars

C9_Witness ==
  /\ pc = "done"
  /\ nQuery = 1
  /\ nGen = 1
  /\ nResp = 1
  /\ Len(results.documents[1]) = 2
  /\ generation.kind = "text"

\* a step of one of the two handlers: start-up is over and something of a
\* request, or a contact flag, changes
HandlerStep ==
  /\ boot = "serving"
  /\ \/ requestVars' # requestVars
     \/ health' # health
     \/ storeContacted' # storeContacted
     \/ modelContacted' # modelContacted

\* C10: no handler step changes the store's record count or rebinds the
\* store and model handles, and GET / reports the record count the store has
\* at the moment of the call, whatever recommend request is in flight.
C10_HandlersOnlyRead ==
  [][ /\ HandlerStep => (storeCount' = storeCount /\ UNCHANGED << model, collection, app >>)
      /\ boot = "serving" => UNCHANGED << model, collection, app >>
      /\ storeCount' # storeCount => ~HandlerStep
      /\ (health' # health /\ health'.code = 200)
           => (health'.body.database_count = storeCount /\ storeCount' = storeCount)
    ]_vars

\* GET / answered while a recommend request waits for the model, and the
\* store has grown since
C10_Witness ==
  /\ pc = "generate"
  /\ health.code = 200
  /\ health.body.database_count < storeCount
  /\ model = MODEL_NAME
  /\ collection = COLLECTION_NAME

====
